---- MODULE Spec2Model ----
(***************************************************************************)
(* LearnCraft backend: transcript segmentation, the LO alignment call and   *)
(* the lo-align request that persists its result.                          *)
(*                                                                         *)
(* Strings are sequences of UTF-16 code units.  JSON values coming back    *)
(* from the model are records [t, n, s]: t is the JavaScript type tag,     *)
(* n the number in units of 1/Scale, s the code units of a string.         *)
(***************************************************************************)
EXTENDS Integers, Sequences, FiniteSets, TLC

VARIABLES
  lectureText,       \* generateLoAlignmentForLesson: the lectureText argument
  learningOutcomes,  \* ... the learningOutcomes argument
  slidesText,        \* ... the slidesText argument
  baseSegments,      \* ... baseSegments
  parsed,            \* ... parsed, what tryParseJSON returned
  loAlignment,       \* ... the segments of the returned LoAlignment
  pc,                \* where the call or the request stands
  rawText,           \* the text the model answered, as tokens
  prompt,            \* LO_LIST, SEGMENTS_JSON and SLD of the prompt sent to the model
  modelCalls,        \* number of calls of model.generateContent
  error,             \* message of the Error thrown, "" when none
  body,              \* body of the lo-align request
  lessons,           \* lessons.json
  memory,            \* memory.json
  status,            \* HTTP status of the response, 0 before it is sent
  connected,         \* the client of the lo-align request has not closed its connection
  requests,          \* number of lo-align requests answered before the present one
  jobs,              \* the jobs registry of the transcription jobs
  procs,             \* the transcription subprocesses and the timers of their close handlers
  clients            \* the clients of GET /api/transcribe/stream/:jobId

callVars ==
  <<lectureText, learningOutcomes, slidesText, baseSegments, parsed, loAlignment,
    pc, rawText, prompt, modelCalls, error>>

requestVars == <<body, lessons, memory, status>>

serverVars == <<connected, requests, jobs, procs, clients>>

vars == <<callVars, requestVars, serverVars>>

----------------------------------------------------------------------------
(* Bounds of the model *)

\* largest number of paragraphs of a generated transcript
MaxParas == 200
\* longest transcript enumerated code unit by code unit
MaxLen == 5
\* numbers are held in units of 1/Scale
Scale == 2
\* most records in a model response
MaxRecords == 2
\* most links in the lo_links list of a record of a one-record response
MaxLinks == 2
\* most paragraphs of a transcript that is sent to alignment
MaxBase == 2

----------------------------------------------------------------------------
(* Code units *)

LF == 10
CR == 13
SP == 32

\* ECMAScript WhiteSpace and LineTerminator, what String.prototype.trim strips
WhiteSpace ==
  {9, 10, 11, 12, 13, 32, 160, 5760, 8232, 8233, 8239, 8287, 12288, 65279}
    \cup (8192..8202)

----------------------------------------------------------------------------
(* String helpers *)

\* String.prototype.trim
Trim(s) ==
  LET n == Len(s)
  IN IF \A i \in 1..n : s[i] \in WhiteSpace THEN <<>>
     ELSE LET lo == CHOOSE i \in 1..n :
                      s[i] \notin WhiteSpace /\ \A j \in 1..(i - 1) : s[j] \in WhiteSpace
              hi == CHOOSE i \in 1..n :
                      s[i] \notin WhiteSpace /\ \A j \in (i + 1)..n : s[j] \in WhiteSpace
          IN SubSeq(s, lo, hi)

\* s.replace(/\r\n/g, "\n"); the text is halved around its middle, never
\* through a CR LF pair, so that long transcripts need little recursion
RECURSIVE ReplaceCRLF(_)
ReplaceCRLF(s) ==
  LET n == Len(s)
      m == n \div 2
  IN IF n <= 1 THEN s
     ELSE IF s[m] = CR /\ s[m + 1] = LF
       THEN ReplaceCRLF(SubSeq(s, 1, m - 1)) \o <<LF>> \o ReplaceCRLF(SubSeq(s, m + 2, n))
       ELSE IF n = 2 THEN s
       ELSE ReplaceCRLF(SubSeq(s, 1, m)) \o ReplaceCRLF(SubSeq(s, m + 1, n))

\* first and last index of the maximal run of LFs that holds index i
RunStart(s, i) ==
  CHOOSE a \in 1..i : (\A t \in a..i : s[t] = LF) /\ (a = 1 \/ s[a - 1] # LF)

RunEnd(s, i) ==
  CHOOSE b \in i..Len(s) : (\A t \in i..b : s[t] = LF) /\ (b = Len(s) \/ s[b + 1] # LF)

Dist(a, b) == IF a >= b THEN a - b ELSE b - a

\* s.split(/\n{2,}/): the pieces between maximal runs of two or more LFs,
\* an empty piece before a leading run and after a trailing one; the text is
\* cut at the run nearest to its middle
RECURSIVE SplitParagraphs(_)
SplitParagraphs(s) ==
  LET n == Len(s)
      inRun == {i \in 1..(n - 1) : s[i] = LF /\ s[i + 1] = LF}
  IN IF inRun = {} THEN <<s>>
     ELSE LET mid == CHOOSE i \in inRun :
                       \A j \in inRun : Dist(i, (n + 1) \div 2) <= Dist(j, (n + 1) \div 2)
              a == RunStart(s, mid)
              b == RunEnd(s, mid)
          IN SplitParagraphs(SubSeq(s, 1, a - 1)) \o SplitParagraphs(SubSeq(s, b + 1, n))

\* a join that puts a single newline between the parts
RECURSIVE JoinLine(_)
JoinLine(ps) ==
  IF ps = <<>> THEN <<>>
  ELSE IF Len(ps) = 1 THEN ps[1]
  ELSE ps[1] \o <<LF>> \o JoinLine(Tail(ps))

\* parts.join("\n\n")
RECURSIVE JoinBlank(_)
JoinBlank(ps) ==
  IF ps = <<>> THEN <<>>
  ELSE IF Len(ps) = 1 THEN ps[1]
  ELSE ps[1] \o <<LF, LF>> \o JoinBlank(Tail(ps))

MapTrim(ps) == [i \in 1..Len(ps) |-> Trim(ps[i])]

NonEmpty(p) == p # <<>>

\* raw.split(/\n{2,}/).map((p) => p.trim()).filter(Boolean)
RawParts(text) ==
  SelectSeq(MapTrim(SplitParagraphs(ReplaceCRLF(text))), NonEmpty)

----------------------------------------------------------------------------
(* segmentTranscript *)

MAX_SEGMENTS == 40

Min(a, b) == IF a <= b THEN a ELSE b
Max(a, b) == IF a >= b THEN a ELSE b

\* a chunk size that rounds down
FloorDiv(a, b) == a \div b

\* Math.ceil(a / b) for a >= 0, b > 0
CeilDiv(a, b) == IF a % b = 0 THEN a \div b ELSE (a \div b) + 1

\* the values i takes in  for (let i = 0; i < length; i += chunkSize)
LoopStarts(length, chunkSize) == {i \in 0..(length - 1) : i % chunkSize = 0}

\* a merge whose slices stop one paragraph early
MergeChunksShort(parts, chunkSize) ==
  [g \in 1..Cardinality(LoopStarts(Len(parts), chunkSize)) |->
     JoinBlank(SubSeq(parts, (g - 1) * chunkSize + 1,
                      Min(g * chunkSize - 1, Len(parts))))]

\* for (...) merged.push(parts.slice(i, i + chunkSize).join("\n\n"))
MergeChunks(parts, chunkSize) ==
  [g \in 1..Cardinality(LoopStarts(Len(parts), chunkSize)) |->
     JoinBlank(SubSeq(parts, (g - 1) * chunkSize + 1,
                      Min(g * chunkSize, Len(parts))))]

\* an indexing that counts from one
IndexPartsOneBased(parts) == [i \in 1..Len(parts) |-> [index |-> i, text |-> parts[i]]]

\* parts.map((text, index) => ({ index, text }))
IndexParts(parts) == [i \in 1..Len(parts) |-> [index |-> i - 1, text |-> parts[i]]]

\* a segmenter without the fallback for a transcript that has no paragraph
segmentTranscriptNoFallback(text) ==
  LET parts == RawParts(text)
  IN IF Len(parts) > MAX_SEGMENTS
       THEN IndexParts(MergeChunks(parts, CeilDiv(Len(parts), MAX_SEGMENTS)))
       ELSE IndexParts(parts)

segmentTranscript(text) ==
  LET raw == ReplaceCRLF(text)
      parts == RawParts(text)
  IN IF Len(parts) = 0 THEN << [index |-> 0, text |-> Trim(raw)] >>
     ELSE IF Len(parts) > MAX_SEGMENTS
       THEN IndexParts(MergeChunks(parts, CeilDiv(Len(parts), MAX_SEGMENTS)))
       ELSE IndexParts(parts)

----------------------------------------------------------------------------
(* Inputs *)

\* the k-th paragraph of a generated transcript: one letter of its own
Word(k) == <<1000 + k>>

Separators == {<<LF, LF>>, <<CR, LF, CR, LF>>, <<LF, LF, LF>>}

\* k one-letter paragraphs with sep between them
Paragraphs(k, sep) ==
  [p \in 1..(IF k = 0 THEN 0 ELSE k + (k - 1) * Len(sep)) |->
     LET q == (p - 1) % (1 + Len(sep))
     IN IF q = 0 THEN Word(((p - 1) \div (1 + Len(sep))) + 1)[1] ELSE sep[q]]

GeneratedTranscripts == {Paragraphs(k, sep) : k \in 0..MaxParas, sep \in Separators}

\* the code units of the transcripts that are enumerated unit by unit
Alphabet == {97, SP, LF, CR}

----------------------------------------------------------------------------
(* Values of the state before anything has run *)

\* a field of the request body: given is false when the body lacks it
NoTranscript == [given |-> FALSE, s |-> <<>>]
NoOutcomes == [given |-> FALSE, list |-> <<>>]
NoBody ==
  [transcript |-> NoTranscript, slidesText |-> NoTranscript, learningOutcomes |-> NoOutcomes]

NoPrompt == [lo_list |-> <<>>, segments_json |-> <<>>, sld |-> <<>>]

\* the initial memory.json of ensureDataFiles
EmptyMemory == [recurringConcepts |-> <<>>, recentEmphases |-> <<>>, lastUpdated |-> 0]

MaxJobs == 1
MaxClients == 2

\* the job ids uid() hands out and the connections of the stream clients
JobIds == 1..MaxJobs
ClientIds == 1..MaxClients

\* a job id the registry does not hold
NoJob == [registered |-> FALSE, done |-> FALSE, transcript |-> <<>>]

\* no subprocess spawned yet for the job id
NoProc == [state |-> "none", lessonId |-> "", timer |-> FALSE, lines |-> 0]

\* a connection that has sent no request yet
NoClient == [job |-> 0, state |-> "idle", listening |-> FALSE, received |-> <<>>]

\* no transcription has been started and no client has gone away
ServerIdle ==
  /\ connected = TRUE
  /\ requests = 0
  /\ jobs = [j \in JobIds |-> NoJob]
  /\ procs = [j \in JobIds |-> NoProc]
  /\ clients = [c \in ClientIds |-> NoClient]

----------------------------------------------------------------------------
(* Segmentation on its own *)

InitSeg ==
  /\ \/ lectureText \in GeneratedTranscripts
     \/ \E m \in 0..MaxLen : lectureText \in [1..m -> Alphabet]
  /\ learningOutcomes = <<>>
  /\ slidesText = <<>>
  /\ baseSegments = <<>>
  /\ parsed = [kind |-> "none", segments |-> <<>>]
  /\ loAlignment = <<>>
  /\ pc = "start"
  /\ rawText = <<>>
  /\ prompt = NoPrompt
  /\ modelCalls = 0
  /\ error = ""
  /\ body = NoBody
  /\ lessons = <<>>
  /\ memory = EmptyMemory
  /\ status = 0
  /\ ServerIdle

\* one call of segmentTranscript
CallSegmentTranscript ==
  /\ pc = "start"
  /\ baseSegments' = segmentTranscript(lectureText)
  /\ pc' = "segmented"
  /\ UNCHANGED <<lectureText, learningOutcomes, slidesText, parsed, loAlignment,
                 rawText, prompt, modelCalls, error, requestVars, serverVars>>

NextSeg == CallSegmentTranscript

SegSpec == InitSeg /\ [][NextSeg]_vars

----------------------------------------------------------------------------
(* JavaScript values of the parsed model response *)

Undef == [t |-> "undefined", n |-> 0, s |-> <<>>]
Null == [t |-> "null", n |-> 0, s |-> <<>>]
NaN == [t |-> "nan", n |-> 0, s |-> <<>>]
PosInf == [t |-> "infinity", n |-> 1, s |-> <<>>]
\* the number n / Scale
Num(n) == [t |-> "number", n |-> n, s |-> <<>>]
\* the integer i
Integer(i) == Num(i * Scale)
Str(s) == [t |-> "string", n |-> 0, s |-> s]
Bool(b) == [t |-> "boolean", n |-> IF b THEN 1 ELSE 0, s |-> <<>>]
\* a JSON object; ownToString says that it has a key "toString" of its own,
\* which JSON can only bind to a value that is no function
Obj(ownToString) == [t |-> "object", n |-> IF ownToString THEN 1 ELSE 0, s |-> <<>>]

\* typeof v === "number"
TypeofNumber(v) == v.t \in {"number", "infinity", "nan"}

\* the value is truthy (what v || "" tests)
Truthy(v) ==
  CASE v.t = "number" -> v.n # 0
    [] v.t = "infinity" -> TRUE
    [] v.t = "string" -> v.s # <<>>
    [] v.t = "boolean" -> v.n = 1
    [] v.t = "object" -> TRUE
    [] OTHER -> FALSE

\* String(v) and Number(v) throw a TypeError: OrdinaryToPrimitive finds no
\* callable toString, and Object.prototype.valueOf returns the object itself
ConversionThrows(v) == v.t = "object" /\ v.n = 1

\* the decimal digits of a natural number
RECURSIVE Digits(_)
Digits(k) == IF k < 10 THEN <<48 + k>> ELSE Append(Digits(k \div 10), 48 + (k % 10))

\* String(v || ""), for strings, booleans and the numbers 0, 1, 2, ...
StringOrEmpty(v) ==
  IF ~Truthy(v) THEN <<>>
  ELSE CASE v.t = "string" -> v.s
         [] v.t = "number" -> Digits(v.n \div Scale)
         [] v.t = "boolean" -> <<116, 114, 117, 101>>
         [] v.t = "object" ->
              <<91, 111, 98, 106, 101, 99, 116, 32, 79, 98, 106, 101, 99, 116, 93>>
         [] OTHER -> <<73, 110, 102, 105, 110, 105, 116, 121>>

IsDigit(c) == c >= 48 /\ c <= 57

\* the natural number written by the decimal digits ds
RECURSIVE DigitsValue(_)
DigitsValue(ds) ==
  IF ds = <<>> THEN 0
  ELSE 10 * DigitsValue(SubSeq(ds, 1, Len(ds) - 1)) + (ds[Len(ds)] - 48)

\* Number(v); of the strings, the blank ones and the runs of decimal digits
\* are numbers, every other string of the model's alphabet is NaN
ToNumber(v) ==
  CASE v.t = "undefined" -> NaN
    [] v.t = "null" -> Num(0)
    [] v.t = "boolean" -> Integer(v.n)
    [] v.t = "string" ->
         LET digits == Trim(v.s)
         IN IF digits = <<>> THEN Num(0)
            ELSE IF \A i \in 1..Len(digits) : IsDigit(digits[i]) THEN Integer(DigitsValue(digits))
            ELSE NaN
    [] v.t = "object" -> NaN
    [] OTHER -> v

\* Number.isFinite(v)
IsFiniteNumber(v) == v.t = "number"

----------------------------------------------------------------------------
(* generateLoAlignmentForLesson: validation of the response and merge *)

\* a clamp that forgets the lower end
ClampUpperOnly(n) == Min(Scale, n)

\* Math.max(0, Math.min(1, conf)), in units of 1/Scale
ClampConfidence(n) == Max(0, Min(Scale, n))

LinkLoId(l) == Trim(StringOrEmpty(l.lo_id))
LinkLoTitle(l) == Trim(StringOrEmpty(l.lo_title))
LinkConf(l) == ToNumber(l.confidence)

\* neither of the two continue statements of the inner loop is taken
LinkSurvives(l) ==
  /\ ~l.nul
  /\ LinkLoId(l) # <<>>
  /\ LinkLoTitle(l) # <<>>
  /\ IsFiniteNumber(LinkConf(l))

\* the link pushed for l
CleanLink(l) ==
  [lo_id |-> LinkLoId(l),
   lo_title |-> LinkLoTitle(l),
   confidence |-> ClampConfidence(LinkConf(l).n)]

\* the links array built from item.lo_links
ValidateLinks(items) ==
  LET kept == SelectSeq(items, LinkSurvives)
  IN [j \in 1..Len(kept) |-> CleanLink(kept[j])]

\* a record check that lets a lo_links that is no array through
RecordKeptAnyLinks(item) == ~item.nul /\ TypeofNumber(item.index)

\* the record passes  typeof item?.index !== "number" || !Array.isArray(item?.lo_links)
RecordKept(item) ==
  /\ ~item.nul
  /\ TypeofNumber(item.index)
  /\ item.lo_links.isArray

\* a lookup table that adds the links of a record to those already stored
\* for its index
RECURSIVE LinksByIndexConcat(_, _)
LinksByIndexConcat(records, n) ==
  IF n = 0 THEN <<>>
  ELSE LET prev == LinksByIndexConcat(records, n - 1)
           item == records[n]
       IN IF ~RecordKept(item) THEN prev
          ELSE [k \in DOMAIN prev \cup {item.index} |->
                  IF k = item.index
                    THEN (IF k \in DOMAIN prev THEN prev[k] ELSE <<>>)
                           \o ValidateLinks(item.lo_links.items)
                    ELSE prev[k]]

\* linksByIndex after the first n records of the response
RECURSIVE LinksByIndex(_, _)
LinksByIndex(records, n) ==
  IF n = 0 THEN <<>>
  ELSE LET prev == LinksByIndex(records, n - 1)
           item == records[n]
       IN IF ~RecordKept(item) THEN prev
          ELSE [k \in DOMAIN prev \cup {item.index} |->
                  IF k = item.index THEN ValidateLinks(item.lo_links.items)
                  ELSE prev[k]]

\* the inner loop throws at link l: one of the three conversions does
LinkThrows(l) ==
  /\ ~l.nul
  /\ \/ ConversionThrows(l.lo_id)
     \/ ConversionThrows(l.lo_title)
     \/ ConversionThrows(l.confidence)

\* the loop over parsed.segments throws
MergeThrows(records) ==
  \E p \in 1..Len(records) :
    /\ RecordKept(records[p])
    /\ \E j \in 1..Len(records[p].lo_links.items) :
         LinkThrows(records[p].lo_links.items[j])

\* a lookup that takes the response's indices to count from 1
LinksForOneBased(map, index) ==
  IF Integer(index + 1) \in DOMAIN map THEN map[Integer(index + 1)] ELSE <<>>

\* linksByIndex.get(index) || []
LinksFor(map, index) == IF Integer(index) \in DOMAIN map THEN map[Integer(index)] ELSE <<>>

\* a merge that emits only the segments the response has a record for
MergeSegmentsMatched(base, records) ==
  LET map == LinksByIndex(records, Len(records))
      Has(seg) == Integer(seg.index) \in DOMAIN map
      found == SelectSeq(base, Has)
  IN [i \in 1..Len(found) |->
        [index |-> found[i].index, text |-> found[i].text,
         lo_links |-> LinksFor(map, found[i].index)]]

\* a merge that leaves the text out of the result
MergeSegmentsNoText(base, records) ==
  LET map == LinksByIndex(records, Len(records))
  IN [i \in 1..Len(base) |->
        [index |-> base[i].index, text |-> <<>>,
         lo_links |-> LinksFor(map, base[i].index)]]

\* baseSegments.map((seg) => ({ index, text, lo_links }))
MergeSegments(base, records) ==
  LET map == LinksByIndex(records, Len(records))
  IN [i \in 1..Len(base) |->
        [index |-> base[i].index, text |-> base[i].text,
         lo_links |-> LinksFor(map, base[i].index)]]

\* a normalisation that trims and keeps the blank entries
NormalizeLOsKeepBlank(los) == MapTrim(los)

\* (learningOutcomes || []).map((t) => String(t || "").trim()).filter(Boolean)
NormalizeLOs(los) == SelectSeq(MapTrim(los), NonEmpty)

----------------------------------------------------------------------------
(* generateLoAlignmentForLesson: the prompt *)

\* array.join(sep)
RECURSIVE JoinSep(_, _)
JoinSep(ps, sep) ==
  IF ps = <<>> THEN <<>>
  ELSE IF Len(ps) = 1 THEN ps[1]
  ELSE ps[1] \o sep \o JoinSep(Tail(ps), sep)

\* `LO${i + 1}: ${lo}` for the i-th entry counted from 1
LoListLine(i, lo) == <<76, 79>> \o Digits(i) \o <<58, 32>> \o lo

\* an LO list that numbers the outcomes by their place in the list as given
BuildLoListByPosition(los) ==
  LET trimmed == MapTrim(los)
      lines == [i \in 1..Len(los) |->
                  IF trimmed[i] = <<>> THEN <<>> ELSE LoListLine(i, trimmed[i])]
  IN JoinSep(SelectSeq(lines, NonEmpty), <<LF>>)

\* LO_LIST: the outcomes left after trimming, numbered from LO1
BuildLoList(los) ==
  LET LOs == NormalizeLOs(los)
  IN JoinSep([i \in 1..Len(LOs) |-> LoListLine(i, LOs[i])], <<LF>>)

HexDigit(d) == IF d < 10 THEN 48 + d ELSE 87 + d

\* what JSON.stringify writes for one code unit of a string (the texts of the
\* model hold no surrogates)
EscapeUnit(c) ==
  CASE c = 34 -> <<92, 34>>
    [] c = 92 -> <<92, 92>>
    [] c = 8 -> <<92, 98>>
    [] c = 9 -> <<92, 116>>
    [] c = 10 -> <<92, 110>>
    [] c = 12 -> <<92, 102>>
    [] c = 13 -> <<92, 114>>
    [] c < 32 /\ c \notin {8, 9, 10, 12, 13} ->
         <<92, 117, 48, 48, HexDigit(c \div 16), HexDigit(c % 16)>>
    [] OTHER -> <<c>>

\* the characters between the quotes of JSON.stringify(s), by halves
RECURSIVE EscapeText(_)
EscapeText(s) ==
  LET n == Len(s)
      m == n \div 2
  IN IF n = 0 THEN <<>>
     ELSE IF n = 1 THEN EscapeUnit(s[1])
     ELSE EscapeText(SubSeq(s, 1, m)) \o EscapeText(SubSeq(s, m + 1, n))

\* JSON.stringify({ index: s.index, text: s.text })
SegmentJson(seg) ==
  <<123, 34, 105, 110, 100, 101, 120, 34, 58>> \o Digits(seg.index)
    \o <<44, 34, 116, 101, 120, 116, 34, 58, 34>> \o EscapeText(seg.text)
    \o <<34, 125>>

\* JSON.stringify(baseSegments.map((s) => ({ index: s.index, text: s.text })))
StringifySegments(segs) ==
  <<91>> \o JoinSep([i \in 1..Len(segs) |-> SegmentJson(segs[i])], <<44>>) \o <<93>>

SEGMENTS_JSON_LIMIT == 12000

\* s.slice(0, n)
SliceTo(s, n) == SubSeq(s, 1, Min(n, Len(s)))

\* a payload that is not cut
BuildSegmentsJsonUncut(segs) == StringifySegments(segs)

\* SEGMENTS_JSON
BuildSegmentsJson(segs) == SliceTo(StringifySegments(segs), SEGMENTS_JSON_LIMIT)

SLD_LIMIT == 4000

\* SLD
BuildSld(slides) == SliceTo(slides, SLD_LIMIT)

----------------------------------------------------------------------------
(* generateLoAlignmentForLesson: reading the answer *)

\* The answer is a sequence of tokens: "fence_json" is ```json in any case,
\* "fence" is ```, "fence_other" is ``` followed by another word, "ws" is
\* white space, "json" is one JSON text and "text" anything else.

\* what the two replace calls of stripCodeFences leave of a token
StripToken(tok) ==
  CASE tok = "fence_json" -> <<>>
    [] tok = "fence" -> <<>>
    [] tok = "fence_other" -> <<"text">>
    [] OTHER -> <<tok>>

RECURSIVE StripAll(_)
StripAll(toks) ==
  IF toks = <<>> THEN <<>> ELSE StripToken(toks[1]) \o StripAll(Tail(toks))

\* trim() of a token sequence
TrimTokens(toks) ==
  LET n == Len(toks)
  IN IF \A i \in 1..n : toks[i] = "ws" THEN <<>>
     ELSE LET lo == CHOOSE i \in 1..n : toks[i] # "ws" /\ \A j \in 1..(i - 1) : toks[j] = "ws"
              hi == CHOOSE i \in 1..n : toks[i] # "ws" /\ \A j \in (i + 1)..n : toks[j] = "ws"
          IN SubSeq(toks, lo, hi)

\* s.replace(/```json/gi, "").replace(/```/g, "").trim()
stripCodeFences(toks) == TrimTokens(StripAll(toks))

Parsed(kind, segments) == [kind |-> kind, segments |-> segments]

\* what the catch of tryParseJSON returns, and JSON.parse("null")
ParsedNull == Parsed("null", <<>>)

\* JSON.parse(s) in a try: the value of the one JSON text, null otherwise
tryParseJSON(toks, value) == IF toks = <<"json">> THEN value ELSE ParsedNull

\* the messages of the errors thrown
ErrTranscript == "Transcript is empty; cannot generate alignment."
ErrOutcomes == "Learning Outcomes list is empty; LO alignment requires LOs."
ErrShape == "LO alignment JSON parse/schema error"
ErrConversion == "Cannot convert object to primitive value"

\* a shape check that only looks for a parse failure
ShapeCheckErrorNullOnly(p) == IF p.kind = "null" THEN ErrShape ELSE ""

\* if (!parsed?.segments || !Array.isArray(parsed.segments)) throw ...: the
\* message thrown, "" when the check passes
ShapeCheckError(p) == IF p.kind # "ok" THEN ErrShape ELSE ""

----------------------------------------------------------------------------
(* Inputs of an alignment call *)

AlignTranscripts == {Paragraphs(k, <<LF, LF>>) : k \in 1..MaxBase}

OutcomeLists == { <<>>, << <<SP>> >>, << <<SP>>, <<97, SP>>, <<>>, <<98>> >> }

NullLink == [nul |-> TRUE, lo_id |-> Undef, lo_title |-> Undef, confidence |-> Undef]
Link(id, title, conf) == [nul |-> FALSE, lo_id |-> id, lo_title |-> title, confidence |-> conf]

LoIdVals == {Undef, Str(<<SP>>), Str(<<SP, 97>>)}
LoTitleVals == {Str(<<>>), Str(<<97>>)}
ConfVals ==
  {Undef, Null, Num(0 - 1), Num(1), Num(Scale + 1), PosInf, Str(<<49>>), Str(<<97>>)}

LinkSet ==
  {NullLink}
    \cup {Link(id, title, conf) : id \in LoIdVals, title \in LoTitleVals, conf \in ConfVals}

NotList == [isArray |-> FALSE, items |-> <<>>]
List(items) == [isArray |-> TRUE, items |-> items]

LinkA == Link(Str(<<SP, 97>>), Str(<<97>>), Num(1))
LinkB == Link(Str(<<97>>), Str(<<97, SP>>), Num(Scale + 1))

\* what the lo_links field holds in the responses of several records
RecordLinks ==
  {NotList, List(<<>>), List(<<LinkA>>), List(<<LinkB, LinkA>>), List(<<NullLink>>)}

IndexVals ==
  {Integer(i) : i \in (0 - 1)..MaxBase} \cup {Num(Scale + 1), PosInf, Str(<<48>>), Undef}

NullItem == [nul |-> TRUE, index |-> Undef, lo_links |-> NotList]
Item(index, links) == [nul |-> FALSE, index |-> index, lo_links |-> links]

Items == {NullItem} \cup {Item(ix, ls) : ix \in IndexVals, ls \in RecordLinks}

\* the responses that fail the shape check: no JSON, JSON without a segments list
FailedResponses == {Parsed("null", <<>>), Parsed("noseg", <<>>)}

\* links with an object where a string or a number is expected
OddLinks ==
  {Link(Obj(TRUE), Str(<<97>>), Num(1)),
   Link(Str(<<97>>), Obj(TRUE), Num(1)),
   Link(Str(<<97>>), Str(<<97>>), Obj(TRUE)),
   Link(Obj(FALSE), Obj(FALSE), Num(1)),
   Link(Str(<<97>>), Str(<<97>>), Obj(FALSE))}

\* the ways the answer wraps its JSON text
RawShapes ==
  {<<>>, <<"text">>, <<"json">>, <<"ws", "json", "ws">>, <<"json", "json">>,
   <<"fence_json", "ws", "json", "ws", "fence">>,
   <<"fence", "json", "fence">>,
   <<"fence_other", "ws", "json", "ws", "fence">>,
   <<"text", "fence_json", "json", "fence">>}

\* the JSON values of the wrapped answers
WrappedValues ==
  {ParsedNull, Parsed("noseg", <<>>), Parsed("ok", <<>>),
   Parsed("ok", << [nul |-> FALSE, index |-> Integer(0), lo_links |-> List(<<LinkA>>)] >>)}

----------------------------------------------------------------------------
(* An alignment call *)

Init ==
  /\ lectureText \in AlignTranscripts
  /\ learningOutcomes \in OutcomeLists
  /\ slidesText = <<>>
  /\ baseSegments = <<>>
  /\ parsed = Parsed("none", <<>>)
  /\ loAlignment = <<>>
  /\ pc = "start"
  /\ rawText = <<>>
  /\ prompt = NoPrompt
  /\ modelCalls = 0
  /\ error = ""
  /\ body = NoBody
  /\ lessons = <<>>
  /\ memory = EmptyMemory
  /\ status = 0
  /\ ServerIdle

\* generateLoAlignmentForLesson(genAI, text, slides, los) up to the await of
\* model.generateContent
CallFrom(text, slides, los) ==
  /\ baseSegments' = segmentTranscript(text)
  /\ IF Len(baseSegments') = 0
       THEN pc' = "error" /\ error' = ErrTranscript /\ UNCHANGED <<prompt, modelCalls>>
       ELSE IF Len(NormalizeLOs(los)) = 0
         THEN pc' = "error" /\ error' = ErrOutcomes /\ UNCHANGED <<prompt, modelCalls>>
         ELSE /\ prompt' = [lo_list |-> BuildLoList(los),
                            segments_json |-> BuildSegmentsJson(baseSegments'),
                            sld |-> BuildSld(slides)]
              /\ modelCalls' = modelCalls + 1
              /\ pc' = "awaiting"
              /\ UNCHANGED error
  /\ UNCHANGED <<parsed, loAlignment, rawText>>

\* a call of generateLoAlignmentForLesson on its own
AlignCall ==
  /\ pc = "start"
  /\ CallFrom(lectureText, slidesText, learningOutcomes)
  /\ UNCHANGED <<lectureText, learningOutcomes, slidesText, requestVars, serverVars>>

\* a return that asks the model once more when the answer fails the shape check
FnReturnRetry(raw, value) ==
  LET p == tryParseJSON(stripCodeFences(raw), value)
  IN /\ rawText' = raw
     /\ parsed' = p
     /\ IF ShapeCheckError(p) # ""
          THEN IF modelCalls < 2
                 THEN /\ modelCalls' = modelCalls + 1
                      /\ UNCHANGED <<pc, error, loAlignment>>
                 ELSE /\ pc' = "error"
                      /\ error' = ShapeCheckError(p)
                      /\ UNCHANGED <<loAlignment, modelCalls>>
          ELSE IF MergeThrows(p.segments)
            THEN pc' = "error" /\ error' = ErrConversion /\ UNCHANGED <<loAlignment, modelCalls>>
            ELSE /\ loAlignment' = MergeSegments(baseSegments, p.segments)
                 /\ pc' = "done"
                 /\ UNCHANGED <<error, modelCalls>>
     /\ UNCHANGED <<lectureText, learningOutcomes, slidesText, baseSegments, prompt>>

\* the rest of generateLoAlignmentForLesson once the model has answered raw,
\* whose JSON text has the value value: strip, parse, shape check, merge, return
FnReturn(raw, value) ==
  LET p == tryParseJSON(stripCodeFences(raw), value)
  IN /\ rawText' = raw
     /\ parsed' = p
     /\ IF ShapeCheckError(p) # ""
          THEN pc' = "error" /\ error' = ShapeCheckError(p) /\ UNCHANGED loAlignment
          ELSE IF MergeThrows(p.segments)
            THEN pc' = "error" /\ error' = ErrConversion /\ UNCHANGED loAlignment
            ELSE /\ loAlignment' = MergeSegments(baseSegments, p.segments)
                 /\ pc' = "done"
                 /\ UNCHANGED error
     /\ UNCHANGED <<lectureText, learningOutcomes, slidesText, baseSegments, prompt,
                    modelCalls>>

\* the same for a call on its own
ReturnWith(raw, value) == FnReturn(raw, value) /\ UNCHANGED <<requestVars, serverVars>>

\* the answer fails the shape check
AlignReturnFailed ==
  /\ pc = "awaiting"
  /\ \E resp \in FailedResponses :
       ReturnWith(IF resp.kind = "null" THEN <<"text">> ELSE <<"json">>, resp)

\* the answer holds up to MaxRecords records of few links
AlignReturnRecords ==
  /\ pc = "awaiting"
  /\ \E m \in 0..MaxRecords : \E recs \in [1..m -> Items] :
       ReturnWith(<<"json">>, Parsed("ok", recs))

\* the answer holds one record for segment 0 with up to MaxLinks links
AlignReturnLinks ==
  /\ pc = "awaiting"
  /\ \E m \in 0..MaxLinks : \E ls \in [1..m -> LinkSet] :
       ReturnWith(<<"json">>, Parsed("ok", << Item(Integer(0), List(ls)) >>))

\* the answer holds a good record for segment 0 and a record with an odd link
AlignReturnOdd ==
  /\ pc = "awaiting"
  /\ \E l \in OddLinks : \E ix \in {Integer(0), Str(<<48>>)} :
       ReturnWith(<<"json">>,
                  Parsed("ok", << Item(Integer(0), List(<<LinkA>>)), Item(ix, List(<<l>>)) >>))

\* the answer is wrapped in fences, white space or other text
AlignReturnWrapped ==
  /\ pc = "awaiting"
  /\ \E raw \in RawShapes : \E value \in WrappedValues : ReturnWith(raw, value)

AlignReturn ==
  \/ AlignReturnFailed
  \/ AlignReturnRecords
  \/ AlignReturnLinks
  \/ AlignReturnOdd
  \/ AlignReturnWrapped

Next == AlignCall \/ AlignReturn

Spec == Init /\ [][Next]_vars

----------------------------------------------------------------------------
(* The lesson store of controllers/lessonControllers.ts *)

\* A lesson is a record of the fields id, title, transcript, slideText,
\* highlights, professorEmphases and updatedAt, and of learningOutcomes and
\* loAlignment once a request has stored them.  Times are numbers.

RECENT_EMPHASES_LIMIT == 20

\* req.params.id of the requests for a lesson
LessonId == "L1"

\* l[f], or d when the lesson has no field f
Field(l, f, d) == IF f \in DOMAIN l THEN l[f] ELSE d

\* list.findIndex((x) => x.id === id) counted from 1, 0 when there is none
FindIndex(list, id) ==
  IF \E i \in 1..Len(list) : list[i].id = id
    THEN CHOOSE i \in 1..Len(list) :
           list[i].id = id /\ \A j \in 1..(i - 1) : list[j].id # id
    ELSE 0

\* memory.recurringConcepts after the forEach over the first n highlights
RECURSIVE AddConcepts(_, _, _)
AddConcepts(concepts, hs, n) ==
  IF n = 0 THEN concepts
  ELSE LET prev == AddConcepts(concepts, hs, n - 1)
           h == hs[n]
       IN IF h # "" /\ ~\E k \in 1..Len(prev) : prev[k] = h THEN Append(prev, h) ELSE prev

\* { statement: e.statement, why: e.why, confidence: e.confidence }
PickEmphasis(e) == [statement |-> e.statement, why |-> e.why, confidence |-> e.confidence]

\* the entries the for loop has put in front of the queue by unshift
Unshifted(es) == [i \in 1..Len(es) |-> PickEmphasis(es[Len(es) + 1 - i])]

\* an update of the memory that lets the queue of emphases grow
updateGlobalMemoryNoSlice(mem, l, now) ==
  LET hs == Field(l, "highlights", <<>>)
      es == Field(l, "professorEmphases", <<>>)
  IN [recurringConcepts |-> AddConcepts(mem.recurringConcepts, hs, Len(hs)),
      recentEmphases |-> IF Len(es) > 0 THEN Unshifted(es) \o mem.recentEmphases
                         ELSE mem.recentEmphases,
      lastUpdated |-> now]

\* memory.json after updateGlobalMemoryFromLesson(l), saved at time now
updateGlobalMemoryFromLesson(mem, l, now) ==
  LET hs == Field(l, "highlights", <<>>)
      es == Field(l, "professorEmphases", <<>>)
  IN [recurringConcepts |-> AddConcepts(mem.recurringConcepts, hs, Len(hs)),
      recentEmphases |->
        IF Len(es) > 0
          THEN SliceTo(Unshifted(es) \o mem.recentEmphases, RECENT_EMPHASES_LIMIT)
          ELSE mem.recentEmphases,
      lastUpdated |-> now]

\* lessons.json and memory.json after addLesson(lesson) at time now
addLesson(list, mem, lesson, now) ==
  LET stamped == [f \in DOMAIN lesson \cup {"updatedAt"} |->
                    IF f = "updatedAt" THEN now ELSE lesson[f]]
  IN [lessons |-> Append(list, stamped),
      memory |-> updateGlobalMemoryFromLesson(mem, stamped, now)]

\* the id upsertLesson works with: newL.id, or "lec-" + Date.now()
UpsertId(newL, now) ==
  IF Field(newL, "id", "") # "" THEN newL.id ELSE "lec-" \o ToString(now)

\* the lesson upsertLesson writes for newL: the stored lesson of its id
\* overlaid with the fields of newL, or a new lesson of the fields the create
\* branches copy
UpsertedLesson(list, newL, now) ==
  LET i == IF Field(newL, "id", "") # "" THEN FindIndex(list, newL.id) ELSE 0
  IN IF i > 0
       THEN LET spread == [f \in DOMAIN list[i] \cup DOMAIN newL \cup {"updatedAt"} |->
                             IF f = "updatedAt" THEN now
                             ELSE IF f \in DOMAIN newL THEN newL[f]
                             ELSE list[i][f]]
                defaults == [transcript |-> <<>>, slideText |-> <<>>,
                             highlights |-> <<>>, professorEmphases |-> <<>>]
            IN [f \in DOMAIN spread \cup DOMAIN defaults |->
                  IF f \in DOMAIN spread THEN spread[f] ELSE defaults[f]]
       ELSE [id |-> UpsertId(newL, now),
             title |-> Field(newL, "title", "Untitled Lecture"),
             transcript |-> Field(newL, "transcript", <<>>),
             slideText |-> Field(newL, "slideText", <<>>),
             highlights |-> Field(newL, "highlights", <<>>),
             professorEmphases |-> Field(newL, "professorEmphases", <<>>),
             updatedAt |-> now]

\* an upsert whose merge lets the stored fields win over those of newL
upsertLessonStoredWins(list, mem, newL, now) ==
  LET i == IF Field(newL, "id", "") # "" THEN FindIndex(list, newL.id) ELSE 0
      u == UpsertedLesson(list, newL, now)
      l == IF i > 0
             THEN [f \in DOMAIN u |->
                     IF f \in DOMAIN list[i] /\ f # "updatedAt" THEN list[i][f] ELSE u[f]]
             ELSE u
  IN [lessons |-> IF i > 0 THEN [list EXCEPT ![i] = l] ELSE Append(list, l),
      memory |-> updateGlobalMemoryFromLesson(mem, l, now)]

\* lessons.json and memory.json after upsertLesson(newL) at time now
upsertLesson(list, mem, newL, now) ==
  LET i == IF Field(newL, "id", "") # "" THEN FindIndex(list, newL.id) ELSE 0
      l == UpsertedLesson(list, newL, now)
  IN [lessons |-> IF i > 0 THEN [list EXCEPT ![i] = l] ELSE Append(list, l),
      memory |-> updateGlobalMemoryFromLesson(mem, l, now)]

----------------------------------------------------------------------------
(* Writes of lessons on their own *)

MaxWrites == 3

\* the j-th emphasis of the lesson written at time w
Emph(w, j) ==
  [statement |-> w, why |-> j, in_slides |-> TRUE, evidence |-> "e", confidence |-> Scale]

EmphList(w, n) == [j \in 1..n |-> Emph(w, j)]

\* how many emphases a written lesson carries
EmphasisCounts == {0, 2, RECENT_EMPHASES_LIMIT + 1}

MemInit ==
  /\ lectureText = <<>>
  /\ learningOutcomes = <<>>
  /\ slidesText = <<>>
  /\ baseSegments = <<>>
  /\ parsed = [kind |-> "none", segments |-> <<>>]
  /\ loAlignment = <<>>
  /\ pc = "idle"
  /\ rawText = <<>>
  /\ prompt = NoPrompt
  /\ modelCalls = 0
  /\ error = ""
  /\ body = NoBody
  /\ lessons = <<>>
  /\ memory = EmptyMemory
  /\ status = 0
  /\ ServerIdle

\* a call of addLesson, one clock tick after the last write
StoreAddLesson ==
  /\ memory.lastUpdated < MaxWrites
  /\ \E n \in EmphasisCounts :
       LET now == memory.lastUpdated + 1
           saved == addLesson(lessons, memory,
                              [id |-> "L2", title |-> "t", transcript |-> <<>>,
                               slideText |-> <<>>, highlights |-> <<"h1">>,
                               professorEmphases |-> EmphList(now, n)], now)
       IN lessons' = saved.lessons /\ memory' = saved.memory
  /\ UNCHANGED <<callVars, body, status, serverVars>>

\* POST /api/lessons: a call of upsertLesson(req.body), one clock tick after
\* the last write, with or without an id and with or without professorEmphases
StoreUpsertLesson ==
  /\ memory.lastUpdated < MaxWrites
  /\ \E id \in {"", LessonId, "L2"} : \E n \in EmphasisCounts \cup {0 - 1} :
       LET now == memory.lastUpdated + 1
           newL == IF n < 0 THEN [id |-> id, title |-> "u"]
                   ELSE [id |-> id, title |-> "u", professorEmphases |-> EmphList(now, n)]
           saved == upsertLesson(lessons, memory, newL, now)
       IN lessons' = saved.lessons /\ memory' = saved.memory
  /\ UNCHANGED <<callVars, body, status, serverVars>>

MemNext == StoreAddLesson \/ StoreUpsertLesson

MemSpec == MemInit /\ [][MemNext]_vars

----------------------------------------------------------------------------
(* POST /api/lessons/:id/lo-align *)

ErrNotFound == "Lesson not found"
ErrLectureRequired == "Transcript (lectureText) is required"
ErrOutcomesRequired == "Learning Outcomes list is required"

\* (transcript ?? existing.transcript ?? "").trim()
RequestLecture(existing) ==
  Trim(IF body.transcript.given THEN body.transcript.s
       ELSE Field(existing, "transcript", <<>>))

\* slidesText ?? existing.slideText ?? ""
RequestSlides(existing) ==
  IF body.slidesText.given THEN body.slidesText.s ELSE Field(existing, "slideText", <<>>)

\* (learningOutcomes && learningOutcomes.length ? learningOutcomes
\*    : existing.learningOutcomes) || []
RequestLoList(existing) ==
  IF body.learningOutcomes.given /\ Len(body.learningOutcomes.list) > 0
    THEN body.learningOutcomes.list
    ELSE Field(existing, "learningOutcomes", <<>>)

\* checks that let an empty lecture through
HandlerRejectOutcomesOnly(lecture, loList) ==
  IF Len(loList) = 0 THEN [status |-> 400, error |-> ErrOutcomesRequired]
  ELSE [status |-> 0, error |-> ""]

\* the two 400 answers of the handler; status 0 when it goes on
HandlerReject(lecture, loList) ==
  IF lecture = <<>> THEN [status |-> 400, error |-> ErrLectureRequired]
  ELSE IF Len(loList) = 0 THEN [status |-> 400, error |-> ErrOutcomesRequired]
  ELSE [status |-> 0, error |-> ""]

\* the handler from the arrival of the request to its 404 or 400 answer, to
\* the 500 answer for an Error thrown before the model is asked, or to the
\* await of the model
LoAlignRequest ==
  /\ pc = "request"
  /\ LET i == FindIndex(lessons, LessonId)
     IN IF i = 0
          THEN /\ status' = 404
               /\ error' = ErrNotFound
               /\ pc' = "responded"
               /\ UNCHANGED <<lectureText, learningOutcomes, slidesText, baseSegments,
                              parsed, loAlignment, rawText, prompt, modelCalls>>
          ELSE LET lecture == RequestLecture(lessons[i])
                   slides == RequestSlides(lessons[i])
                   loList == RequestLoList(lessons[i])
                   reject == HandlerReject(lecture, loList)
               IN IF reject.status # 0
                    THEN /\ status' = reject.status
                         /\ error' = reject.error
                         /\ pc' = "responded"
                         /\ UNCHANGED <<lectureText, learningOutcomes, slidesText,
                                        baseSegments, parsed, loAlignment, rawText,
                                        prompt, modelCalls>>
                    ELSE /\ lectureText' = lecture
                         /\ slidesText' = slides
                         /\ learningOutcomes' = loList
                         /\ CallFrom(lecture, slides, loList)
                         /\ status' = IF pc' = "error" THEN 500 ELSE status
  /\ UNCHANGED <<body, lessons, memory, serverVars>>

\* a handler that stores what it has also when the call threw
LoAlignReturnSavesAnyway(raw, value) ==
  /\ FnReturn(raw, value)
  /\ \E now \in memory.lastUpdated..(memory.lastUpdated + 1) :
       LET saved == upsertLesson(lessons, memory,
                                 [id |-> LessonId, transcript |-> lectureText,
                                  slideText |-> slidesText,
                                  learningOutcomes |-> learningOutcomes,
                                  loAlignment |-> loAlignment'], now)
       IN /\ lessons' = saved.lessons
          /\ memory' = saved.memory
          /\ status' = IF pc' = "done" THEN 200 ELSE 500
  /\ UNCHANGED <<body, serverVars>>

\* the handler from the answer of the model to its own answer: the rest of
\* generateLoAlignmentForLesson, then upsertLesson and 200, or the catch and 500
LoAlignReturn(raw, value) ==
  /\ FnReturn(raw, value)
  /\ IF pc' = "done"
       THEN \E now \in memory.lastUpdated..(memory.lastUpdated + 1) :
              LET saved == upsertLesson(lessons, memory,
                                        [id |-> LessonId, transcript |-> lectureText,
                                         slideText |-> slidesText,
                                         learningOutcomes |-> learningOutcomes,
                                         loAlignment |-> loAlignment'], now)
              IN /\ lessons' = saved.lessons
                 /\ memory' = saved.memory
                 /\ status' = 200
       ELSE status' = 500 /\ UNCHANGED <<lessons, memory>>
  /\ UNCHANGED <<body, serverVars>>

MaxHandlerRecords == 1

LoAlignReturnFailed ==
  /\ pc = "awaiting"
  /\ \E resp \in FailedResponses :
       LoAlignReturn(IF resp.kind = "null" THEN <<"text">> ELSE <<"json">>, resp)

LoAlignReturnRecords ==
  /\ pc = "awaiting"
  /\ \E m \in 0..MaxHandlerRecords : \E recs \in [1..m -> Items] :
       LoAlignReturn(<<"json">>, Parsed("ok", recs))

LoAlignReturnOdd ==
  /\ pc = "awaiting"
  /\ \E l \in OddLinks : \E ix \in {Integer(0), Str(<<48>>)} :
       LoAlignReturn(<<"json">>,
                     Parsed("ok", << Item(Integer(0), List(<<LinkA>>)), Item(ix, List(<<l>>)) >>))

LoAlignReturnWrapped ==
  /\ pc = "awaiting"
  /\ \E raw \in RawShapes : \E value \in WrappedValues : LoAlignReturn(raw, value)

\* an emphasis of a stored lesson
Emph1 == Emph(0, 1)

\* a stored lesson that no alignment request has touched
BareLesson(id, transcript) ==
  [id |-> id, title |-> "t", transcript |-> transcript, slideText |-> <<>>,
   highlights |-> <<>>, professorEmphases |-> <<>>, updatedAt |-> 0]

\* a stored lesson with the result of an earlier alignment request
AlignedLesson ==
  [id |-> LessonId, title |-> "t", transcript |-> Paragraphs(1, <<LF, LF>>),
   slideText |-> <<115>>, learningOutcomes |-> << <<97>> >>,
   loAlignment |-> << [index |-> 0, text |-> Word(1), lo_links |-> <<CleanLink(LinkB)>>] >>,
   highlights |-> <<"h1", "h2">>, professorEmphases |-> <<Emph1>>, updatedAt |-> 1]

\* a stored lesson whose transcript and outcomes are blank
BlankLesson ==
  [id |-> LessonId, title |-> "t", transcript |-> <<SP>>, slideText |-> <<>>,
   learningOutcomes |-> << <<SP>> >>,
   highlights |-> <<>>, professorEmphases |-> <<>>, updatedAt |-> 0]

UsedMemory ==
  [recurringConcepts |-> <<"h1">>, recentEmphases |-> <<PickEmphasis(Emph1)>>,
   lastUpdated |-> 1]

Stores ==
  {[lessons |-> <<>>, memory |-> EmptyMemory],
   [lessons |-> <<BareLesson(LessonId, <<>>)>>, memory |-> EmptyMemory],
   [lessons |-> <<BlankLesson>>, memory |-> EmptyMemory],
   [lessons |-> <<BareLesson("L2", Word(2)), AlignedLesson>>, memory |-> UsedMemory]}

TranscriptFields ==
  {NoTranscript, [given |-> TRUE, s |-> <<>>], [given |-> TRUE, s |-> <<SP, LF>>]}
    \cup {[given |-> TRUE, s |-> Paragraphs(k, <<LF, LF>>)] : k \in 1..MaxBase}

SlidesFields == {NoTranscript, [given |-> TRUE, s |-> <<115, 115>>]}

OutcomeFields == {NoOutcomes} \cup {[given |-> TRUE, list |-> l] : l \in OutcomeLists}

HandlerInit ==
  /\ \E st \in Stores : lessons = st.lessons /\ memory = st.memory
  /\ body \in [transcript : TranscriptFields, slidesText : SlidesFields,
                learningOutcomes : OutcomeFields]
  /\ lectureText = <<>>
  /\ learningOutcomes = <<>>
  /\ slidesText = <<>>
  /\ baseSegments = <<>>
  /\ parsed = Parsed("none", <<>>)
  /\ loAlignment = <<>>
  /\ pc = "request"
  /\ rawText = <<>>
  /\ prompt = NoPrompt
  /\ modelCalls = 0
  /\ error = ""
  /\ status = 0
  /\ ServerIdle

HandlerNext ==
  \/ LoAlignRequest
  \/ LoAlignReturnFailed
  \/ LoAlignReturnRecords
  \/ LoAlignReturnOdd
  \/ LoAlignReturnWrapped

HandlerSpec == HandlerInit /\ [][HandlerNext]_vars

----------------------------------------------------------------------------
(* Requests for one lesson, one after the other *)

MaxRequests == 2

\* another stored lesson, with an alignment of its own
OtherLesson == [AlignedLesson EXCEPT !.id = "L2"]

\* a stored lesson with a highlight and an emphasis that no alignment request
\* has touched
FreshLesson ==
  [BareLesson(LessonId, Paragraphs(1, <<LF, LF>>)) EXCEPT
     !.highlights = <<"h1">>, !.professorEmphases = <<Emph1>>]

RepeatStores == {<<OtherLesson, AlignedLesson>>, <<OtherLesson, FreshLesson>>}

\* the outcomes a body of these requests carries
BodyOutcomes == [given |-> TRUE, list |-> << <<SP>>, <<97, SP>>, <<>>, <<98>> >>]

\* bodies with nothing, with outcomes, with outcomes and a transcript
RepeatBodies ==
  {NoBody,
   [NoBody EXCEPT !.learningOutcomes = BodyOutcomes],
   [NoBody EXCEPT !.learningOutcomes = BodyOutcomes,
                  !.transcript = [given |-> TRUE, s |-> Paragraphs(2, <<LF, LF>>)]]}

RepeatInit ==
  /\ lessons \in RepeatStores
  /\ memory = UsedMemory
  /\ body \in RepeatBodies
  /\ lectureText = <<>>
  /\ learningOutcomes = <<>>
  /\ slidesText = <<>>
  /\ baseSegments = <<>>
  /\ parsed = Parsed("none", <<>>)
  /\ loAlignment = <<>>
  /\ pc = "request"
  /\ rawText = <<>>
  /\ prompt = NoPrompt
  /\ modelCalls = 0
  /\ error = ""
  /\ status = 0
  /\ ServerIdle

\* the next lo-align request for the lesson arrives after the answer to the
\* one before: a new run of the handler, with locals of its own
LoAlignAgain ==
  /\ pc \in {"responded", "done", "error"}
  /\ requests + 1 < MaxRequests
  /\ requests' = requests + 1
  /\ body' \in RepeatBodies
  /\ lectureText' = <<>>
  /\ learningOutcomes' = <<>>
  /\ slidesText' = <<>>
  /\ baseSegments' = <<>>
  /\ parsed' = Parsed("none", <<>>)
  /\ loAlignment' = <<>>
  /\ pc' = "request"
  /\ rawText' = <<>>
  /\ prompt' = NoPrompt
  /\ modelCalls' = 0
  /\ error' = ""
  /\ status' = 0
  /\ UNCHANGED <<lessons, memory, connected, jobs, procs, clients>>

RepeatNext ==
  \/ LoAlignRequest
  \/ LoAlignReturnFailed
  \/ LoAlignReturnWrapped
  \/ LoAlignAgain

RepeatSpec == RepeatInit /\ [][RepeatNext]_vars

----------------------------------------------------------------------------
(* Transcription jobs: POST /api/transcribe/start and
   GET /api/transcribe/stream/:jobId *)

MaxLines == 2

\* a message the subprocess writes on a line of its output; type "" stands
\* for a line that is no JSON
Msg(type, text) == [type |-> type, text |-> text]

\* the lines a subprocess may write
LineMsgs ==
  {Msg("segment", <<97>>), Msg("segment", <<>>), Msg("progress", <<>>), Msg("", <<>>)}

\* { type: "done", progress: 1.0, code }
DoneMsg == Msg("done", <<>>)

\* `[${Number(msg.start).toFixed(2)} - ${Number(msg.end).toFixed(2)}] ${msg.text}\n`
\* for a segment from 0 to 1
TranscriptLine(msg) ==
  <<91, 48, 46, 48, 48, SP, 45, SP, 49, 46, 48, 48, 93, SP>> \o msg.text \o <<LF>>

\* emitter.emit("msg", msg) of job j: every listener writes msg to its response
Emit(cs, j, msg) ==
  [c \in ClientIds |->
     IF cs[c].listening /\ cs[c].job = j
       THEN [cs[c] EXCEPT !.received = Append(@, msg)]
       ELSE cs[c]]

\* POST /api/transcribe/start with a file: registers the job and spawns the
\* subprocess
TranscribeStart(j, lessonId) ==
  /\ procs[j].state = "none"
  /\ jobs' = [jobs EXCEPT ![j] = [registered |-> TRUE, done |-> FALSE, transcript |-> <<>>]]
  /\ procs' = [procs EXCEPT ![j] = [state |-> "running", lessonId |-> lessonId,
                                    timer |-> FALSE, lines |-> 0]]
  /\ UNCHANGED <<callVars, requestVars, connected, requests, clients>>

\* rl.on("line"): a line of the subprocess
ProcLine(j, msg) ==
  /\ procs[j].state = "running"
  /\ procs[j].lines < MaxLines
  /\ procs' = [procs EXCEPT ![j].lines = @ + 1]
  /\ IF msg.type = "" \/ ~jobs[j].registered
       THEN UNCHANGED <<jobs, clients>>
       ELSE /\ jobs' = IF msg.type = "segment" /\ msg.text # <<>>
                         THEN [jobs EXCEPT ![j].transcript = @ \o TranscriptLine(msg)]
                         ELSE jobs
            /\ clients' = Emit(clients, j, msg)
  /\ UNCHANGED <<callVars, requestVars, connected, requests>>

\* a close handler that does not schedule the removal of the job
ProcCloseNoTimer(j) ==
  /\ procs[j].state = "running"
  /\ procs' = [procs EXCEPT ![j].state = "closed"]
  /\ IF ~jobs[j].registered
       THEN UNCHANGED <<jobs, clients, lessons, memory>>
       ELSE /\ jobs' = [jobs EXCEPT ![j].done = TRUE]
            /\ clients' = Emit(clients, j, DoneMsg)
            /\ UNCHANGED <<lessons, memory>>
  /\ UNCHANGED <<callVars, body, status, connected, requests>>

\* proc.on("close"): marks the job done, tells the listeners, writes the
\* transcript to the lesson of the job when it is stored, and sets the timer
\* that removes the job
ProcClose(j) ==
  /\ procs[j].state = "running"
  /\ IF ~jobs[j].registered
       THEN /\ procs' = [procs EXCEPT ![j].state = "closed"]
            /\ UNCHANGED <<jobs, clients, lessons, memory>>
       ELSE /\ jobs' = [jobs EXCEPT ![j].done = TRUE]
            /\ clients' = Emit(clients, j, DoneMsg)
            /\ IF procs[j].lessonId # "" /\ FindIndex(lessons, procs[j].lessonId) # 0
                 THEN \E now \in memory.lastUpdated..(memory.lastUpdated + 1) :
                        LET saved == upsertLesson(lessons, memory,
                                                  [id |-> procs[j].lessonId,
                                                   transcript |-> jobs[j].transcript], now)
                        IN lessons' = saved.lessons /\ memory' = saved.memory
                 ELSE UNCHANGED <<lessons, memory>>
            /\ procs' = [procs EXCEPT ![j].state = "closed", ![j].timer = TRUE]
  /\ UNCHANGED <<callVars, body, status, connected, requests>>

\* the timer of the close handler fires: jobs.delete(jobId)
TimerFire(j) ==
  /\ procs[j].timer
  /\ procs' = [procs EXCEPT ![j].timer = FALSE]
  /\ jobs' = [jobs EXCEPT ![j] = NoJob]
  /\ UNCHANGED <<callVars, requestVars, connected, requests, clients>>

\* GET /api/transcribe/stream/:jobId: 404 when the registry has no such job,
\* else the response becomes a listener of the job's emitter
StreamSubscribe(c, j) ==
  /\ clients[c].state = "idle"
  /\ clients' = [clients EXCEPT ![c] =
                   IF jobs[j].registered
                     THEN [job |-> j, state |-> "open", listening |-> TRUE,
                           received |-> <<>>]
                     ELSE [job |-> j, state |-> "notfound", listening |-> FALSE,
                           received |-> <<>>]]
  /\ UNCHANGED <<callVars, requestVars, connected, requests, jobs, procs>>

\* req.on("close") of a stream: the listener is taken off and the response ended
StreamClose(c) ==
  /\ clients[c].state = "open"
  /\ clients' = [clients EXCEPT ![c].state = "closed", ![c].listening = FALSE]
  /\ UNCHANGED <<callVars, requestVars, connected, requests, jobs, procs>>

\* the lessonId field of the start request: none, a stored lesson, no lesson
JobLessonIds == {"", LessonId, "L9"}

JobInit ==
  /\ lectureText = <<>>
  /\ learningOutcomes = <<>>
  /\ slidesText = <<>>
  /\ baseSegments = <<>>
  /\ parsed = [kind |-> "none", segments |-> <<>>]
  /\ loAlignment = <<>>
  /\ pc = "idle"
  /\ rawText = <<>>
  /\ prompt = NoPrompt
  /\ modelCalls = 0
  /\ error = ""
  /\ body = NoBody
  /\ lessons = <<BareLesson("L2", Word(2)), AlignedLesson>>
  /\ memory = UsedMemory
  /\ status = 0
  /\ ServerIdle

JobStart == \E j \in JobIds : \E id \in JobLessonIds : TranscribeStart(j, id)
JobLine == \E j \in JobIds : \E msg \in LineMsgs : ProcLine(j, msg)
JobClose == \E j \in JobIds : ProcClose(j)
JobTimer == \E j \in JobIds : TimerFire(j)
JobSubscribe == \E c \in ClientIds : \E j \in JobIds : StreamSubscribe(c, j)
JobUnsubscribe == \E c \in ClientIds : StreamClose(c)

JobNext ==
  \/ JobStart
  \/ JobLine
  \/ JobClose
  \/ JobTimer
  \/ JobSubscribe
  \/ JobUnsubscribe

JobSpec == JobInit /\ [][JobNext]_vars

\* the timers of node fire
TimerFairness == \A j \in JobIds : WF_vars(TimerFire(j))

\* every subprocess closes in the end
CloseFairness == \A j \in JobIds : WF_vars(ProcClose(j))

\* the jobs and their streams when every subprocess closes in the end
JobFairSpec == JobSpec /\ TimerFairness /\ CloseFairness

\* the registry on its own: jobs start, write lines, close and are removed
RegistryNext ==
  \/ JobStart
  \/ JobLine
  \/ JobClose
  \/ JobTimer

\* the stores a job may find: with the lesson aligned, bare, or not stored
RegistryStores ==
  {<<BareLesson("L2", Word(2)), AlignedLesson>>,
   <<BareLesson(LessonId, Word(2))>>,
   <<>>}

RegistryInit ==
  /\ lectureText = <<>>
  /\ learningOutcomes = <<>>
  /\ slidesText = <<>>
  /\ baseSegments = <<>>
  /\ parsed = [kind |-> "none", segments |-> <<>>]
  /\ loAlignment = <<>>
  /\ pc = "idle"
  /\ rawText = <<>>
  /\ prompt = NoPrompt
  /\ modelCalls = 0
  /\ error = ""
  /\ body = NoBody
  /\ lessons \in RegistryStores
  /\ memory = UsedMemory
  /\ status = 0
  /\ ServerIdle

\* the timers fire; whether a subprocess closes is not in the hands of the code
RegistrySpec == RegistryInit /\ [][RegistryNext]_vars /\ TimerFairness

----------------------------------------------------------------------------
(* A lo-align request and what else happens while it awaits the model *)

\* deleteLesson(id) of controllers/lessonControllers.ts: the list without the
\* lesson of the id, and whether there was one
deleteLesson(list, id) ==
  [lessons |-> SelectSeq(list, LAMBDA l : l.id # id),
   success |-> FindIndex(list, id) # 0]

\* DELETE /api/lessons/:id for the lesson of the request
LessonDelete ==
  /\ FindIndex(lessons, LessonId) # 0
  /\ lessons' = deleteLesson(lessons, LessonId).lessons
  /\ UNCHANGED <<callVars, body, memory, status, serverVars>>

\* the client of the lo-align request closes its connection while the handler
\* awaits the model; the handler has no listener for it
ClientDisconnect ==
  /\ pc = "awaiting"
  /\ connected
  /\ connected' = FALSE
  /\ UNCHANGED <<callVars, requestVars, requests, jobs, procs, clients>>

\* POST /api/transcribe/start for the lesson of the request
RaceJobStart == \E j \in JobIds : TranscribeStart(j, LessonId)

RaceInit ==
  /\ lessons = <<OtherLesson, AlignedLesson>>
  /\ memory = UsedMemory
  /\ body \in RepeatBodies
  /\ lectureText = <<>>
  /\ learningOutcomes = <<>>
  /\ slidesText = <<>>
  /\ baseSegments = <<>>
  /\ parsed = Parsed("none", <<>>)
  /\ loAlignment = <<>>
  /\ pc = "request"
  /\ rawText = <<>>
  /\ prompt = NoPrompt
  /\ modelCalls = 0
  /\ error = ""
  /\ status = 0
  /\ ServerIdle

RaceNext ==
  \/ LoAlignRequest
  \/ LoAlignReturnFailed
  \/ LoAlignReturnWrapped
  \/ ClientDisconnect
  \/ LessonDelete
  \/ RaceJobStart
  \/ JobLine
  \/ JobClose
  \/ JobTimer

RaceSpec == RaceInit /\ [][RaceNext]_vars

----------------------------------------------------------------------------
(* Calls with transcripts about as long as the payload ceiling *)

MaxSlack == 4

\* lengths around the one whose payload is exactly SEGMENTS_JSON_LIMIT long
LongLens == {SEGMENTS_JSON_LIMIT - 24 + d : d \in 0..MaxSlack}

\* n letters with the code unit c in second place
Letters(n, c) == [i \in 1..n |-> IF i = 2 THEN c ELSE 97]

LongTranscripts ==
  UNION {{Letters(n, 97), Letters(n, 34), Letters(n, LF),
          Letters(n, 97) \o <<LF, LF, 98>>,
          <<98, LF, LF>> \o Letters(n, 97)} : n \in LongLens}

PromptInit ==
  /\ lectureText \in LongTranscripts
  /\ learningOutcomes = << <<97>> >>
  /\ slidesText = <<>>
  /\ baseSegments = <<>>
  /\ parsed = Parsed("none", <<>>)
  /\ loAlignment = <<>>
  /\ pc = "start"
  /\ rawText = <<>>
  /\ prompt = NoPrompt
  /\ modelCalls = 0
  /\ error = ""
  /\ body = NoBody
  /\ lessons = <<>>
  /\ memory = EmptyMemory
  /\ status = 0
  /\ ServerIdle

PromptNext ==
  \/ AlignCall
  \/ AlignReturnFailed
  \/ AlignReturnOdd
  \/ AlignReturnWrapped

PromptSpec == PromptInit /\ [][PromptNext]_vars

----------------------------------------------------------------------------
(* Properties of segmentTranscript, checked under SegSpec *)

\* the number of non-empty raw paragraphs of the transcript
RawCount == Len(RawParts(lectureText))

Segmented == pc = "segmented"

\* the paragraphs ps with sep between each two of them
RECURSIVE Glue(_, _)
Glue(ps, sep) ==
  IF Len(ps) = 0 THEN <<>>
  ELSE IF Len(ps) = 1 THEN ps[1]
  ELSE Glue(SubSeq(ps, 1, Len(ps) - 1), sep) \o sep \o ps[Len(ps)]

\* segment g (from 1) is paragraphs (g-1)*size+1 .. g*size joined by a blank line
GroupIs(parts, g, size) ==
  baseSegments[g].text =
    Glue(SubSeq(parts, (g - 1) * size + 1, Min(g * size, Len(parts))), <<LF, LF>>)

\* every segment is a group of size paragraphs of the transcript
AllGroups(size) ==
  LET parts == RawParts(lectureText)
  IN \A g \in 1..Len(baseSegments) : GroupIs(parts, g, size)

\* C3 as stated: at most 40 segments, and exactly k segments whenever the
\* transcript has k <= 40 non-empty raw paragraphs.
C3_CapAsStated ==
  Segmented =>
    LET k == RawCount
    IN /\ Len(baseSegments) <= 40
       /\ (k <= 40 => Len(baseSegments) = k)

\* C3 amended: at most 40 segments; exactly k segments when 1 <= k <= 40;
\* one segment when the transcript has no non-empty paragraph (k = 0).
C3_Cap ==
  Segmented =>
    LET k == RawCount
    IN /\ Len(baseSegments) <= 40
       /\ (k >= 1 /\ k <= 40 => Len(baseSegments) = k)
       /\ (k = 0 => Len(baseSegments) = 1)

C3_Witness == Segmented /\ RawCount = 41 /\ Len(baseSegments) = 21

\* C4 as stated: 200 raw paragraphs give exactly 5 segments, each the join
\* of 5 consecutive paragraphs with a blank line between them.
C4_TwoHundredAsStated ==
  Segmented /\ RawCount = 200 =>
    /\ Len(baseSegments) = 5
    /\ AllGroups(5)

\* C4 amended: 200 raw paragraphs give exactly 40 segments, each the join of
\* 5 consecutive paragraphs with a blank line between them.
C4_TwoHundred ==
  Segmented /\ RawCount = 200 =>
    /\ Len(baseSegments) = 40
    /\ AllGroups(5)

C4_Witness == Segmented /\ RawCount = 200 /\ Len(baseSegments[40].text) = 13

\* C5: with k > 40 raw paragraphs the segments are the consecutive groups of
\* ceil(k/40) paragraphs (the last one possibly smaller), each joined by a
\* blank line, covering every paragraph once and in order.
C5_Groups ==
  Segmented =>
    LET k == RawCount
        size == (k + 39) \div 40
        n == Len(baseSegments)
    IN k > 40 =>
         /\ (n - 1) * size < k
         /\ k <= n * size
         /\ AllGroups(size)

C5_Witness ==
  /\ Segmented
  /\ RawCount = 81
  /\ Len(baseSegments) = 27
  /\ baseSegments[1].text = <<1001, LF, LF, 1002, LF, LF, 1003>>

\* C6: segmentTranscript never returns an empty list; a transcript without a
\* non-empty paragraph gives the single segment 0 holding the trimmed input.
C6_NeverEmpty ==
  Segmented =>
    /\ Len(baseSegments) >= 1
    /\ (RawCount = 0 =>
          baseSegments = << [index |-> 0, text |-> Trim(lectureText)] >>)

C6_Witness ==
  /\ Segmented
  /\ RawCount = 0
  /\ Len(lectureText) = 3
  /\ baseSegments = << [index |-> 0, text |-> <<>>] >>

\* C7: the indices of the returned segments are 0..n-1 in list order, also
\* after paragraphs were merged to respect the cap.
C7_Indices ==
  Segmented => \A i \in 1..Len(baseSegments) : baseSegments[i].index = i - 1

C7_Witness ==
  /\ Segmented
  /\ RawCount > 40
  /\ Len(baseSegments) = 40
  /\ baseSegments[40].index = 39

----------------------------------------------------------------------------
(* Properties of the merge, checked under Spec *)

Done == pc = "done"

\* the positions of the response records the code keeps for segment index
KeptFor(index) ==
  {p \in 1..Len(parsed.segments) :
     RecordKept(parsed.segments[p]) /\ parsed.segments[p].index = Integer(index)}

\* the last of them
LastKeptFor(index) ==
  parsed.segments[CHOOSE p \in KeptFor(index) : \A q \in KeptFor(index) : q <= p]

\* C1: the alignment result has exactly as many segments as segmentTranscript
\* produced, whatever the records of the response hold.
C1_SegmentCount ==
  Done => Len(loAlignment) = Len(segmentTranscript(lectureText))

C1_Witness ==
  /\ Done
  /\ Len(loAlignment) = 2
  /\ Len(parsed.segments) = 2
  /\ parsed.segments[1].index = Integer(MaxBase)
  /\ parsed.segments[2].nul

\* C2: the i-th segment of the result has index i and the text of the i-th
\* base segment, whatever indices the response declares.
C2_IndexStability ==
  Done =>
    /\ DOMAIN loAlignment = DOMAIN baseSegments
    /\ \A i \in DOMAIN loAlignment :
         /\ loAlignment[i].index = i - 1
         /\ loAlignment[i].text = baseSegments[i].text

C2_Witness ==
  /\ Done
  /\ Len(loAlignment) = 2
  /\ Len(parsed.segments) = 2
  /\ parsed.segments[1].index = Integer(1)
  /\ parsed.segments[2].index = Integer(0 - 1)
  /\ loAlignment[1] = [index |-> 0, text |-> Word(1), lo_links |-> <<>>]
  /\ loAlignment[2].index = 1
  /\ loAlignment[2].text = Word(2)
  /\ loAlignment[2].lo_links # <<>>

\* max(0, min(1, c)) in units of 1/Scale
ClampedTo01(n) == IF n < 0 THEN 0 ELSE IF n > Scale THEN Scale ELSE n

\* C8: a link that survives validation with the finite number c as its
\* confidence is stored with confidence max(0, min(1, c)), and every
\* confidence of every alignment result lies in [0, 1].
C8_Clamp ==
  Done =>
    \A i \in DOMAIN loAlignment :
      LET out == loAlignment[i].lo_links
      IN /\ \A j \in DOMAIN out : out[j].confidence >= 0 /\ out[j].confidence <= Scale
         /\ KeptFor(i - 1) # {} =>
              LET kept == SelectSeq(LastKeptFor(i - 1).lo_links.items, LinkSurvives)
              IN /\ Len(out) = Len(kept)
                 /\ \A j \in DOMAIN kept :
                      kept[j].confidence.t = "number" =>
                        out[j].confidence = ClampedTo01(kept[j].confidence.n)

C8_Witness ==
  /\ Done
  /\ Len(parsed.segments) = 1
  /\ Len(parsed.segments[1].lo_links.items) = 2
  /\ parsed.segments[1].lo_links.items[1].confidence = Num(Scale + 1)
  /\ parsed.segments[1].lo_links.items[2].confidence = Num(0 - 1)
  /\ Len(loAlignment[1].lo_links) = 2
  /\ loAlignment[1].lo_links[1].confidence = Scale
  /\ loAlignment[1].lo_links[2].confidence = 0

\* the record has an integer index and a list as lo_links
WellFormedRecord(item) ==
  /\ ~item.nul
  /\ item.index.t = "number"
  /\ item.index.n % Scale = 0
  /\ item.lo_links.isArray

\* C9: a record whose index is no integer or whose lo_links is no list is
\* skipped: the result is the one the response gives without those records.
C9_SkippedRecords ==
  Done =>
    loAlignment = MergeSegments(baseSegments, SelectSeq(parsed.segments, WellFormedRecord))

C9_Witness ==
  /\ Done
  /\ parsed.segments = << Item(Integer(0), List(<<LinkA>>)), Item(Integer(0), NotList) >>
  /\ Len(loAlignment[1].lo_links) = 1

\* the link passes the three checks as the claim words them
LinkKeptAsStated(l) ==
  /\ ~l.nul
  /\ LinkLoId(l) # <<>>
  /\ LinkLoTitle(l) # <<>>
  /\ l.confidence.t = "number"

\* C10: within a kept record a link is dropped if and only if its lo_id or
\* its lo_title is empty after trimming or its confidence is not a finite
\* number; the other links are kept in the record's order.
C10_LinkDropAsStated ==
  Done =>
    \A i \in DOMAIN loAlignment :
      KeptFor(i - 1) # {} =>
        LET kept == SelectSeq(LastKeptFor(i - 1).lo_links.items, LinkKeptAsStated)
        IN /\ Len(loAlignment[i].lo_links) = Len(kept)
           /\ \A j \in DOMAIN kept :
                /\ loAlignment[i].lo_links[j].lo_id = LinkLoId(kept[j])
                /\ loAlignment[i].lo_links[j].lo_title = LinkLoTitle(kept[j])

\* C11: once the response has a top-level segments list the call never ends
\* in an error, whatever the records and the links hold.
C11_MergeNeverRaises == parsed.kind = "ok" => pc # "error"

\* C12: a base segment whose index no kept record of the response carries
\* gets an empty lo_links, and every other segment gets the validated links
\* of the last kept record with its index: records with an index outside
\* 0..n-1 change nothing.
C12_NoRecordNoLinks ==
  Done =>
    \A i \in DOMAIN loAlignment :
      IF KeptFor(i - 1) = {}
        THEN loAlignment[i].lo_links = <<>>
        ELSE loAlignment[i].lo_links = ValidateLinks(LastKeptFor(i - 1).lo_links.items)

C12_Witness ==
  /\ Done
  /\ Len(loAlignment) = 2
  /\ Len(parsed.segments) = 2
  /\ parsed.segments[1] = Item(Integer(2), List(<<LinkA>>))
  /\ parsed.segments[2] = Item(Integer(1), List(<<LinkA>>))
  /\ loAlignment[1].lo_links = <<>>
  /\ Len(loAlignment[2].lo_links) = 1

\* C26: when several kept records of the response declare the same index,
\* the segment of that index carries the surviving links of the last of them
\* in response order, cleaned, and nothing of the earlier ones, also when the
\* last one leaves no link.
C26_LastRecordWins ==
  Done =>
    \A i \in DOMAIN loAlignment :
      Cardinality(KeptFor(i - 1)) >= 2 =>
        LET out == loAlignment[i].lo_links
            kept == SelectSeq(LastKeptFor(i - 1).lo_links.items, LinkSurvives)
        IN /\ Len(out) = Len(kept)
           /\ \A j \in DOMAIN kept :
                /\ out[j].lo_id = LinkLoId(kept[j])
                /\ out[j].lo_title = LinkLoTitle(kept[j])

C26_Witness ==
  /\ Done
  /\ parsed.segments = << Item(Integer(0), List(<<LinkB, LinkA>>)), Item(Integer(0), List(<<>>)) >>
  /\ loAlignment[1].lo_links = <<>>

\* C15: a call asks the model at most once, exactly once when it got past
\* its preconditions, not again after a failed answer, and nothing is parsed
\* or merged while the answer is awaited.
C15_OneModelCall ==
  /\ modelCalls <= 1
  /\ pc \in {"awaiting", "done"} => modelCalls = 1
  /\ pc = "awaiting" => parsed.kind = "none" /\ loAlignment = <<>>
  /\ parsed.kind # "none" => modelCalls = 1 /\ pc \in {"done", "error"}
  /\ (pc = "error" /\ parsed.kind = "none") => modelCalls = 0

C15_Witness ==
  /\ pc = "error"
  /\ parsed.kind = "noseg"
  /\ modelCalls = 1

\* the text left after fence stripping is no JSON text
InvalidJson == stripCodeFences(rawText) # <<"json">>

\* the call failed the check of the answer's shape
ShapeFailure == pc = "error" /\ parsed.kind \in {"null", "noseg"}

\* C16 as stated: an answer that is valid JSON without a segments list fails
\* with an error other than the one the call reports when the text is no
\* JSON, and an answer with a segments list does not fail the check.
C16_DistinctErrorsAsStated ==
  /\ (ShapeFailure /\ ~InvalidJson) =>
       error # ShapeCheckError(tryParseJSON(<<"text">>, parsed))
  /\ parsed.kind = "ok" => error # ErrShape

\* C16: an answer that is no JSON after fence stripping and an answer that is
\* JSON without a segments list both fail the call with the one error
\* "LO alignment JSON parse/schema error", and an answer with a segments
\* list, an empty one too, passes that check.
C16_ShapeErrors ==
  /\ (parsed.kind # "none" /\ InvalidJson) => parsed = ParsedNull
  /\ parsed.kind \in {"null", "noseg"} =>
       pc = "error" /\ error = ErrShape /\ loAlignment = <<>>
  /\ parsed.kind = "ok" => error # ErrShape

C16_Witness ==
  /\ pc = "error"
  /\ rawText = <<"fence_json", "ws", "json", "ws", "fence">>
  /\ parsed = Parsed("noseg", <<>>)
  /\ error = ErrShape

\* the position of the j-th entry of los that is not blank
SurvivorPos(los, j) ==
  CHOOSE p \in 1..Len(los) :
    /\ Trim(los[p]) # <<>>
    /\ Cardinality({q \in 1..p : Trim(los[q]) # <<>>}) = j

\* C18: the catalogue in the prompt lists the outcomes that are not blank,
\* trimmed and in order, the j-th of them labelled LOj.
C18_CatalogueIds ==
  modelCalls >= 1 =>
    LET m == Cardinality({q \in 1..Len(learningOutcomes) : Trim(learningOutcomes[q]) # <<>>})
    IN prompt.lo_list =
         Glue([j \in 1..m |->
                 <<76, 79>> \o Digits(j) \o <<58, 32>>
                   \o Trim(learningOutcomes[SurvivorPos(learningOutcomes, j)])],
              <<LF>>)

C18_Witness ==
  /\ modelCalls = 1
  /\ Len(learningOutcomes) = 4
  /\ prompt.lo_list = <<76, 79, 49, 58, 32, 97, LF, 76, 79, 50, 58, 32, 98>>

----------------------------------------------------------------------------
(* Properties of the lo-align handler, checked under HandlerSpec *)

\* every entry of los is blank
AllBlank(los) == \A q \in 1..Len(los) : Trim(los[q]) = <<>>

\* the request is for a stored lesson and the handler has taken it up
Handled == pc # "request" /\ FindIndex(lessons, LessonId) # 0

\* the stored lesson of the request
Existing == lessons[FindIndex(lessons, LessonId)]

\* C13: when no outcome of the request is left after trimming, the request
\* ends in an error answer and the model is not asked; the model is asked
\* only with a list that has an outcome left.
C13_EmptyOutcomes ==
  /\ pc \in {"awaiting", "done"} => ~AllBlank(learningOutcomes)
  /\ modelCalls > 0 => ~AllBlank(learningOutcomes)
  /\ (Handled /\ RequestLecture(Existing) # <<>> /\ AllBlank(RequestLoList(Existing))) =>
       /\ status \in {400, 500}
       /\ error \in {ErrOutcomesRequired, ErrOutcomes}
       /\ modelCalls = 0
       /\ parsed.kind = "none"

C13_Witness ==
  /\ status = 500
  /\ error = ErrOutcomes
  /\ modelCalls = 0
  /\ body.learningOutcomes = [given |-> TRUE, list |-> << <<SP>> >>]
  /\ Len(baseSegments) = 1

\* C14: a request whose transcript is empty or blank is answered with an
\* error before the transcript is segmented and before the model is asked.
C14_EmptyTranscript ==
  /\ (Handled /\ RequestLecture(Existing) = <<>>) =>
       /\ pc = "responded"
       /\ status = 400
       /\ error = ErrLectureRequired
       /\ baseSegments = <<>>
       /\ modelCalls = 0
  /\ baseSegments # <<>> => \E q \in 1..Len(lectureText) : lectureText[q] \notin WhiteSpace

C14_Witness ==
  /\ status = 400
  /\ error = ErrLectureRequired
  /\ body.transcript = [given |-> TRUE, s |-> <<SP, LF>>]
  /\ Len(lessons) = 2
  /\ lessons[2] = AlignedLesson
  /\ baseSegments = <<>>
  /\ modelCalls = 0

\* C17: when the answer of the model fails the parse or the shape check, no
\* aligned segment is produced, the request is answered 500, and lessons.json
\* and memory.json stay as they were.
C17_FailureLeavesStore ==
  [][(pc = "awaiting" /\ parsed'.kind \in {"null", "noseg"}) =>
       /\ lessons' = lessons
       /\ memory' = memory
       /\ loAlignment' = <<>>
       /\ pc' = "error"
       /\ status' = 500]_vars

C17_Witness ==
  /\ pc = "error"
  /\ error = ErrShape
  /\ status = 500
  /\ parsed = ParsedNull
  /\ lessons = <<BareLesson("L2", Word(2)), AlignedLesson>>
  /\ memory = UsedMemory
  /\ loAlignment = <<>>

----------------------------------------------------------------------------
(* Properties of the payload ceiling, checked under PromptSpec *)

\* the texts of the segments
SegmentTexts(segs) == [i \in 1..Len(segs) |-> segs[i].text]

\* C19: the segment payload of the prompt is at most 12000 characters long;
\* the call goes on to ask the model however long the transcript is, fails
\* only for the answer it gets, and merges over the whole list of base
\* segments: a segment cut out of the payload is in the result with its text
\* and, when the answer has no record for it, with an empty lo_links.
C19_PayloadCeiling ==
  /\ Len(prompt.segments_json) <= 12000
  /\ pc # "start" =>
       /\ modelCalls = 1
       /\ Glue(SegmentTexts(baseSegments), <<LF, LF>>) = lectureText
  /\ pc = "error" => parsed.kind # "none" /\ error \in {ErrShape, ErrConversion}
  /\ Done =>
       /\ DOMAIN loAlignment = DOMAIN baseSegments
       /\ \A i \in DOMAIN loAlignment :
            /\ loAlignment[i].text = baseSegments[i].text
            /\ KeptFor(i - 1) = {} => loAlignment[i].lo_links = <<>>

C19_Witness ==
  /\ Done
  /\ Len(baseSegments) = 2
  /\ Len(baseSegments[1].text) + 22 > 12000
  /\ Len(prompt.segments_json) = 12000
  /\ Len(loAlignment) = 2
  /\ Len(loAlignment[1].lo_links) = 1
  /\ loAlignment[2] = [index |-> 1, text |-> <<98>>, lo_links |-> <<>>]

----------------------------------------------------------------------------
(* Properties of the memory queue, checked under MemSpec *)

\* the lesson the last write stored
LastWritten(list, time) ==
  list[CHOOSE i \in 1..Len(list) : list[i].updatedAt = time]

\* C24: after every write of a lesson the queue recentEmphases holds at most
\* 20 entries; when the written lesson carries emphases, the queue starts
\* with them, the last of the lesson first, and goes on with the entries it
\* held before in their order, those at its end giving way first; a lesson
\* without emphases leaves the queue as it was.
C24_RecentEmphases ==
  [][LET old == memory.recentEmphases
         new == memory'.recentEmphases
         es == Field(LastWritten(lessons', memory'.lastUpdated), "professorEmphases", <<>>)
         n == IF Len(es) < 20 THEN Len(es) ELSE 20
     IN /\ Len(new) <= 20
        /\ Len(es) = 0 => new = old
        /\ Len(es) > 0 =>
             /\ Len(new) = (IF n + Len(old) < 20 THEN n + Len(old) ELSE 20)
             /\ \A k \in 1..n :
                  new[k] = [statement |-> es[Len(es) + 1 - k].statement,
                            why |-> es[Len(es) + 1 - k].why,
                            confidence |-> es[Len(es) + 1 - k].confidence]
             /\ \A k \in 1..(Len(new) - n) : new[n + k] = old[k]]_vars

C24_Witness ==
  /\ memory.lastUpdated = 2
  /\ Len(memory.recentEmphases) = 20
  /\ memory.recentEmphases[1].statement = 2
  /\ memory.recentEmphases[1].why = 2
  /\ memory.recentEmphases[2].statement = 2
  /\ memory.recentEmphases[3].statement = 1
  /\ memory.recentEmphases[3].why = 21
  /\ memory.recentEmphases[20].statement = 1
  /\ memory.recentEmphases[20].why = 4

----------------------------------------------------------------------------
(* Properties of the transcription jobs, checked under RegistrySpec, JobSpec
   and JobFairSpec *)

\* the subprocess of job j has closed
Closed(j) == procs[j].state = "closed"

\* the registry holds job j
Registered(j) == jobs[j].registered

GotDone(c) ==
  \E k \in 1..Len(clients[c].received) : clients[c].received[k].type = "done"

\* C29: when every subprocess closes in the end, a client whose stream is
\* open receives a "done" message unless it closes the stream itself.
C29_SubscriberGetsDone ==
  \A c \in ClientIds :
    [](clients[c].state = "open" => <>(GotDone(c) \/ clients[c].state = "closed"))

\* C30: the close of a subprocess whose job has gathered no transcript text
\* leaves the transcript of every stored lesson as it was.
C30_NoTextNoWrite ==
  [][\A j \in JobIds :
       (procs[j].state = "running" /\ Closed(j)' /\ jobs[j].transcript = <<>>) =>
         /\ Len(lessons') = Len(lessons)
         /\ \A i \in 1..Len(lessons) : lessons'[i].transcript = lessons[i].transcript]_vars

----------------------------------------------------------------------------
(* Properties of requests that follow one another, checked under RepeatSpec *)

\* the alignment the store holds for lesson id: <<>> when the lesson is not
\* stored or has none
StoredAlignment(list, id) ==
  IF FindIndex(list, id) = 0 THEN <<>>
  ELSE Field(list[FindIndex(list, id)], "loAlignment", <<>>)

\* the step in which a request stores its result
Persists == pc = "awaiting" /\ pc' = "done"

\* C21: the store holds one record of the lesson; a request that stores its
\* result leaves the alignment it computed as the alignment of the lesson, in
\* place of the one before; no other step changes that alignment, and no
\* step changes the alignment of another lesson.
C21_OneCurrentAlignment ==
  /\ [](Cardinality({i \in 1..Len(lessons) : lessons[i].id = LessonId}) = 1)
  /\ [][/\ StoredAlignment(lessons', LessonId) =
            (IF Persists THEN loAlignment' ELSE StoredAlignment(lessons, LessonId))
         /\ StoredAlignment(lessons', "L2") = StoredAlignment(lessons, "L2")]_vars

\* the second request has stored an alignment without links over one with a
\* link
C21_Witness ==
  /\ requests = 1
  /\ pc = "done"
  /\ status = 200
  /\ lessons[1] = OtherLesson
  /\ StoredAlignment(lessons, LessonId) = loAlignment
  /\ \A k \in 1..Len(loAlignment) : loAlignment[k].lo_links = <<>>
  /\ memory.lastUpdated = UsedMemory.lastUpdated + 2

\* two lists of lessons that differ in updatedAt at most
SameButTime(a, b) ==
  /\ Len(a) = Len(b)
  /\ \A i \in 1..Len(a) :
       /\ DOMAIN a[i] = DOMAIN b[i]
       /\ \A f \in DOMAIN a[i] \ {"updatedAt"} : a[i][f] = b[i][f]

\* the lesson holds what an earlier request stored, and the request that
\* stores its result now stores the same transcript, slides, outcomes and
\* alignment again
StoresTheSameAgain ==
  LET i == FindIndex(lessons, LessonId)
  IN /\ Persists
     /\ requests > 0
     /\ i # 0
     /\ "loAlignment" \in DOMAIN lessons[i]
     /\ "learningOutcomes" \in DOMAIN lessons[i]
     /\ lessons[i].transcript = lectureText
     /\ lessons[i].slideText = slidesText
     /\ lessons[i].learningOutcomes = learningOutcomes
     /\ lessons[i].loAlignment = loAlignment'

\* C23: a request that stores again what the request before it stored leaves
\* lessons.json and memory.json as they were, timestamps aside.
C23_PersistIdempotent ==
  [][StoresTheSameAgain =>
       /\ SameButTime(lessons', lessons)
       /\ memory'.recurringConcepts = memory.recurringConcepts
       /\ memory'.recentEmphases = memory.recentEmphases]_vars

----------------------------------------------------------------------------
(* Properties of a request among other requests, checked under RaceSpec *)

\* C22: once the client has closed the connection of a request that awaits
\* the model, the request writes nothing to lessons.json and memory.json.
C22_CancelledWritesNothing ==
  [][(pc = "awaiting" /\ ~connected /\ pc' # "awaiting") =>
       (lessons' = lessons /\ memory' = memory)]_vars

\* C27: when the request had no transcript in its body and the lesson holds a
\* transcript with text that is no longer the one the request read before it
\* asked the model, the request leaves the transcript of the lesson as it
\* finds it.
C27_KeepsNewerTranscript ==
  [][(/\ Persists
      /\ ~body.transcript.given
      /\ FindIndex(lessons, LessonId) # 0
      /\ lessons[FindIndex(lessons, LessonId)].transcript # <<>>
      /\ Trim(lessons[FindIndex(lessons, LessonId)].transcript) # lectureText) =>
       (/\ FindIndex(lessons', LessonId) # 0
        /\ lessons'[FindIndex(lessons', LessonId)].transcript =
             lessons[FindIndex(lessons, LessonId)].transcript)]_vars

\* C28: a request that finds its lesson gone when the model has answered
\* leaves it gone, and a record the request stores for the lesson holds the
\* alignment the request computed.
C28_DeletedStaysDeleted ==
  [][Persists =>
       /\ (FindIndex(lessons, LessonId) = 0 => FindIndex(lessons', LessonId) = 0)
       /\ (FindIndex(lessons', LessonId) # 0 =>
             /\ "loAlignment" \in DOMAIN lessons'[FindIndex(lessons', LessonId)]
             /\ lessons'[FindIndex(lessons', LessonId)].loAlignment = loAlignment')]_vars

====
